---- MODULE Spec2Model ----
(***************************************************************************)
(* The APEC scraper run: process_keywords discovers manufacturer URLs per  *)
(* keyword, process_and_scrape_manufacturer_data fans one task per         *)
(* (keyword, URL) out over a thread pool of max_workers threads, every     *)
(* task leases a browser session, paginates through the manufacturer's     *)
(* listing and appends rows to the shared workbook, and the orchestrator   *)
(* saves the workbook and cleans the session pool up.                      *)
(*                                                                         *)
(* The web site is the environment: what a page holds (how many groups,    *)
(* which category, how many rows, which element is missing, which call     *)
(* times out) is chosen when the code asks for it, within the bounds of    *)
(* the scenario `site` the run starts from; a scenario may instead fix the *)
(* listing every manufacturer shows (site.layout).                         *)
(***************************************************************************)
EXTENDS Integers, Sequences, FiniteSets, TLC

VARIABLES
    site,     \* the input and the web site: [kws, urls, pages, groups, rows, faults, layout, crash, mfr]
    opc,      \* where the main thread is in process_keywords / process_and_scrape_manufacturer_data
    disc,     \* fetch_all_manufacturer_urls: [i, dict, aborted, driver, failed]
    fan,      \* the as_completed loop: [collected]
    T,        \* all_tasks: one record per submitted scrape_manufacturer_data call
    pool,     \* driver_pool: [avail, cleanups]
    locks,    \* [ss, xl]: the holder of ss_lock and of excel_writing_lock (0: free)
    wb,       \* the MyApecExcel workbook: [made, row_count, sheet, table, saves, closed, failed]
    rowin,    \* parse_row_data: the row element handed to the row parser
    rowout    \* parse_row_data: what the call produced

vars == <<site, opc, disc, fan, T, pool, locks, wb, rowin, rowout>>

----------------------------------------------------------------------------
(* Program constants.                                                      *)

\* max_workers = 3: the size of the thread pool and of the session pool.
max_workers == 3

\* fields_to_write: the ten columns write_data_row writes, in order.
fields_to_write ==
    << "KEYWORD", "CATEGORY", "MANUFACTURER", "ARTICLE", "NAME", "WEIGHT",
       "AVAILABILITY", "LEAD_TIME", "INFORMATION", "PRICE" >>

\* The category names scrape_manufacturer_data extracts rows from.
AllowedCategories ==
    { "Own stock warehouses", "Requested article",
      "Superseded part for the requested article" }

\* The category names the modelled site shows: one of the allow-list and one
\* outside it.
SiteCategories == { "Own stock warehouses", "Related Products" }

\* The cell values of the worksheet: a header cell, or the record <<task, n>>
\* (the n-th write_data_row call of that task) that wrote the cell.
HeaderCell == <<0, 0>>

----------------------------------------------------------------------------
(* Bounds of the model.                                                    *)

\* Keyword lists hold at most MaxKeywords keywords, each a string over
\* { " ", "a" } of at most MaxKeywordLen characters.
MaxKeywords == 2
MaxKeywordLen == 2
\* At most MaxCloseFails failed workbook.close() attempts are explored.
MaxCloseFails == 2
\* write_data_row is followed through the first MaxFields entries of
\* fields_to_write (each worksheet row has MaxFields columns).
MaxFields == 2

\* The columns the model writes.
Fields == SubSeq(fields_to_write, 1, MaxFields)

----------------------------------------------------------------------------
(* Keywords: str.strip().                                                  *)

RECURSIVE LStrip(_)
LStrip(s) == IF s = <<>> THEN s
             ELSE IF Head(s) = " " THEN LStrip(Tail(s)) ELSE s

RECURSIVE RStrip(_)
RStrip(s) == IF s = <<>> THEN s
             ELSE IF s[Len(s)] = " " THEN RStrip(SubSeq(s, 1, Len(s) - 1)) ELSE s

\* A strip() that leaves the string as it is.
stripMut(s) == s

strip(s) == RStrip(LStrip(s))

\* Position of key k in the dict d (a sequence of [kw, n] items in insertion
\* order), 0 when absent.
DictIndex(d, k) ==
    IF \E j \in 1..Len(d) : d[j].kw = k
    THEN CHOOSE j \in 1..Len(d) : d[j].kw = k
    ELSE 0

\* d[k] = n: a new key is appended, an existing key keeps its place.
DictSet(d, k, n) ==
    IF DictIndex(d, k) = 0
    THEN Append(d, [kw |-> k, n |-> n])
    ELSE [d EXCEPT ![DictIndex(d, k)].n = n]

\* The (keyword, url) pairs of the dict in the order the fan-out loop visits them:
\* for keyword, manufacturer_urls in dict.items(): for url in manufacturer_urls.
RECURSIVE Pairs(_)
Pairs(d) ==
    IF d = <<>> THEN <<>>
    ELSE [u \in 1..Head(d).n |-> [kw |-> Head(d).kw, url |-> u]] \o Pairs(Tail(d))

----------------------------------------------------------------------------
(* The state before process_keywords is called with the keywords of the   *)
(* scenario s.                                                             *)

Start(s, at, row) ==
    /\ site = s
    /\ opc = at
    /\ disc = [i |-> 1, dict |-> <<>>, aborted |-> FALSE, driver |-> "none",
               failed |-> {}]
    /\ fan = [collected |-> {}]
    /\ T = <<>>
    /\ pool = [avail |-> {}, cleanups |-> 0]
    /\ locks = [ss |-> 0, xl |-> 0]
    /\ wb = [made |-> 0, row_count |-> 0, sheet |-> {}, table |-> <<>>,
             saves |-> 0, closed |-> 0, failed |-> 0]
    /\ rowin = row
    /\ rowout = <<>>

InitWith(s) == Start(s, "process_keywords", <<>>)

----------------------------------------------------------------------------
(* process_keywords and fetch_all_manufacturer_urls (main thread).         *)

\* process_keywords: an empty list returns at once, else
\* fetch_all_manufacturer_urls starts with a browser session of its own.
ProcessKeywords ==
    /\ opc = "process_keywords"
    /\ IF site.kws = <<>>
       THEN opc' = "end" /\ disc' = disc
       ELSE opc' = "fetch" /\ disc' = [disc EXCEPT !.driver = "open"]
    /\ UNCHANGED <<site, fan, T, pool, locks, wb, rowin, rowout>>

\* One iteration of `for keyword in keywords`: a blank keyword is skipped; for
\* any other, get_manufacturer_urls returns the n URLs it found, or a browser
\* call raises inside its try block (while navigating, waiting or reading the
\* links) and it returns the n URLs appended before that, or it raises while
\* it builds the search URL, which ends the loop (except at 62).  disc.failed
\* keeps the positions of the keywords whose discovery met a failure.
FetchKeyword ==
    /\ opc = "fetch"
    /\ disc.i <= Len(site.kws)
    /\ LET keyword == strip(site.kws[disc.i]) IN
       IF keyword = <<>>
       THEN disc' = [disc EXCEPT !.i = @ + 1] /\ opc' = opc
       ELSE \/ \E n \in 0..site.urls :
                 /\ disc' = [disc EXCEPT !.i = @ + 1,
                                         !.dict = DictSet(@, keyword, n)]
                 /\ opc' = opc
            \/ /\ site.faults
               /\ \E n \in 0..site.urls :
                     disc' = [disc EXCEPT !.i = @ + 1,
                                          !.dict = DictSet(@, keyword, n),
                                          !.failed = @ \cup {disc.i}]
               /\ opc' = opc
            \/ /\ site.faults
               /\ disc' = [disc EXCEPT !.aborted = TRUE, !.driver = "quit",
                                       !.failed = @ \cup {disc.i}]
               /\ opc' = "fetched"
    /\ UNCHANGED <<site, fan, T, pool, locks, wb, rowin, rowout>>

\* The loop is over: driver.quit() and return manufacturer_urls_dict.
FetchReturn ==
    /\ opc = "fetch"
    /\ disc.i > Len(site.kws)
    /\ opc' = "fetched"
    /\ disc' = [disc EXCEPT !.driver = "quit"]
    /\ UNCHANGED <<site, fan, T, pool, locks, wb, rowin, rowout>>

\* if manufacturer_urls_dict: process_and_scrape_manufacturer_data(...).
\* The call constructs the workbook (MyApecExcel.__init__: row_count = 0, then
\* add_headers writes row 0 and counts it), the two locks and the session pool.
\* fetch_all_manufacturer_urls has returned the dictionary alone: what failed
\* during discovery is known from here on only by what the dictionary holds.
HeaderRow == { <<0, c, HeaderCell>> : c \in 1..Len(Fields) }

Dispatch ==
    /\ opc = "fetched"
    /\ IF disc.dict = <<>>
       THEN opc' = "end" /\ UNCHANGED <<wb, pool>>
       ELSE /\ opc' = "submit"
            /\ wb' = [wb EXCEPT !.made = @ + 1, !.row_count = 1, !.sheet = HeaderRow]
            /\ pool' = [pool EXCEPT !.avail = 1..max_workers]
    /\ disc' = [disc EXCEPT !.failed = {}]
    /\ UNCHANGED <<site, fan, T, locks, rowin, rowout>>

----------------------------------------------------------------------------
(* process_and_scrape_manufacturer_data (main thread).                     *)

\* The locals of a scrape_manufacturer_data call that has not started yet.
NewTask(p) ==
    [ kw |-> p.kw, url |-> p.url, pc |-> "queued", driver |-> 0,
      page_num |-> 0, page |-> 0, ngroups |-> 0, gi |-> 0,
      category_name |-> "unbound", nrows |-> 0, ri |-> 0, fld |-> 0, row |-> 0,
      returned |-> 0, shots |-> 0, released |-> 0, stop |-> "" ]

\* executor.submit(scrape_manufacturer_data, url, ...) for the next pair: the
\* task is queued, or submit raises (RuntimeError: no thread can be started)
\* and the exception leaves the with block, whose exit waits for the
\* submitted tasks.
Submit ==
    /\ opc = "submit"
    /\ Len(T) < Len(Pairs(disc.dict))
    /\ \/ T' = Append(T, NewTask(Pairs(disc.dict)[Len(T) + 1])) /\ opc' = opc
       \/ site.crash /\ opc' = "unwind" /\ T' = T
    /\ UNCHANGED <<site, disc, fan, pool, locks, wb, rowin, rowout>>

\* Every pair is submitted: the main thread enters the as_completed loop.
SubmitDone ==
    /\ opc = "submit"
    /\ Len(T) = Len(Pairs(disc.dict))
    /\ opc' = "collect"
    /\ UNCHANGED <<site, disc, fan, T, pool, locks, wb, rowin, rowout>>

\* for task in as_completed(all_tasks): task.result() of a finished task.
Collect(t) ==
    /\ opc = "collect"
    /\ t \notin fan.collected
    /\ T[t].pc = "done"
    /\ fan' = [fan EXCEPT !.collected = @ \cup {t}]
    /\ UNCHANGED <<site, opc, disc, T, pool, locks, wb, rowin, rowout>>

\* An as_completed loop that ends with the first finished task.
AllCollectedMut == fan.collected # {}

\* as_completed is exhausted and the with-block shuts the executor down.
AllCollected == fan.collected = 1..Len(T)

\* An exit of the with block that does not wait: executor.shutdown(wait=False).
JoinedMut == TRUE

\* ThreadPoolExecutor.__exit__: shutdown(wait=True) returns when every
\* submitted task has run.
Joined == \A t \in 1..Len(T) : T[t].pc = "done"

\* The with block is left: after the as_completed loop, on to save_workbook;
\* on the exception of submit, on to except Exception (116) and the finally
\* clause.
ExitExecutor ==
    /\ \/ opc = "collect" /\ AllCollected /\ Joined /\ opc' = "save"
       \/ opc = "unwind" /\ Joined /\ opc' = "cleanup"
    /\ UNCHANGED <<site, disc, fan, T, pool, locks, wb, rowin, rowout>>

\* workbook.save_workbook(): add_table over rows 0..row_count-1 and autofit;
\* or it raises out of add_table or autofit: except Exception (116) and the
\* finally clause of process_and_scrape_manufacturer_data.
SaveWorkbook ==
    /\ opc = "save"
    /\ \/ /\ wb' = [wb EXCEPT !.saves = @ + 1, !.table = <<0, wb.row_count - 1>>]
          /\ opc' = "close"
       \/ /\ site.crash
          /\ wb' = [wb EXCEPT !.saves = @ + 1]
          /\ opc' = "cleanup"
    /\ UNCHANGED <<site, disc, fan, T, pool, locks, rowin, rowout>>

\* while True: workbook.close() succeeds and the loop breaks.
CloseOk ==
    /\ opc = "close"
    /\ wb' = [wb EXCEPT !.closed = @ + 1]
    /\ opc' = "cleanup"
    /\ UNCHANGED <<site, disc, fan, T, pool, locks, rowin, rowout>>

\* A failed close that is logged and given up: the loop is left.
CloseFailMut ==
    /\ opc = "close"
    /\ wb.failed < MaxCloseFails
    /\ wb' = [wb EXCEPT !.failed = @ + 1]
    /\ opc' = "cleanup"
    /\ UNCHANGED <<site, disc, fan, T, pool, locks, rowin, rowout>>

\* workbook.close() raises (the destination is held open, or any other
\* error): the error is logged and input(...) waits for the operator.
CloseFail ==
    /\ opc = "close"
    /\ wb.failed < MaxCloseFails
    /\ wb' = [wb EXCEPT !.failed = @ + 1]
    /\ opc' = "prompt"
    /\ UNCHANGED <<site, disc, fan, T, pool, locks, rowin, rowout>>

\* The operator presses Enter: input(...) returns and the loop goes round.
ClosePrompt ==
    /\ opc = "prompt"
    /\ opc' = "close"
    /\ UNCHANGED <<site, disc, fan, T, pool, locks, wb, rowin, rowout>>

\* finally: driver_pool.cleanup().
Cleanup ==
    /\ opc = "cleanup"
    /\ pool' = [pool EXCEPT !.cleanups = @ + 1, !.avail = {}]
    /\ opc' = "end"
    /\ UNCHANGED <<site, disc, fan, T, locks, wb, rowin, rowout>>

----------------------------------------------------------------------------
(* scrape_manufacturer_data (one call per task, run by a pool thread).     *)

Tasks == 1..Len(T)

\* The tasks a pool thread is running.
Running == { u \in Tasks : T[u].pc \notin {"queued", "done"} }

\* A thread of the executor takes the oldest queued work item; the executor
\* has max_workers threads.
StartTask(t) ==
    /\ T[t].pc = "queued"
    /\ \A u \in 1..(t - 1) : T[u].pc # "queued"
    /\ Cardinality(Running) < max_workers
    /\ T' = [T EXCEPT ![t].pc = "acquire"]
    /\ UNCHANGED <<site, opc, disc, fan, pool, locks, wb, rowin, rowout>>

\* The session driver_pool.acquire() hands out: one that is available (the
\* lowest-numbered one; which one is never looked at by the callers).
Leased(avail) == CHOOSE s \in avail : \A o \in avail : s <= o

\* driver = driver_pool.acquire(); page_num = 1.  The call blocks while no
\* session is available.
Acquire(t) ==
    /\ T[t].pc = "acquire"
    /\ pool.avail # {}
    /\ pool' = [pool EXCEPT !.avail = @ \ {Leased(pool.avail)}]
    /\ T' = [T EXCEPT ![t].driver = Leased(pool.avail), ![t].page_num = 1,
                      ![t].pc = "load"]
    /\ UNCHANGED <<site, opc, disc, fan, locks, wb, rowin, rowout>>

\* The task on its way out of the try block: of its locals only driver is
\* read again (by the finally clause); the others are dropped from the state.
\* What the call did stays on record: pages visited, screenshots taken, rows
\* appended, and how it ended.
Leaving(task, why) ==
    [NewTask(task) EXCEPT !.pc = "finally", !.driver = task.driver,
                          !.page = task.page, !.shots = task.shots,
                          !.returned = task.returned, !.stop = why]

\* An exception handler that returns without the finally clause.
CaughtMut(task, why) == [Leaving(task, why) EXCEPT !.pc = "done"]

\* except Exception as e: logging.error(...), then the finally clause.
Caught(task, why) == Leaving(task, why)

\* The while loop ends with should_continue = False: the try block is left
\* normally and the finally clause runs.
Stopped(task, why) == Leaving(task, why)

\* What the site shows to a task: within the scenario's bounds anything, or
\* what the scenario's layout says (a sequence of pages, each a sequence of
\* groups [cat, rows]).
Scripted == site.layout # <<>>

GroupCounts(task) ==
    IF Scripted THEN {Len(site.layout[task.page + 1])} ELSE 1..site.groups

GroupCategories(task) ==
    IF Scripted THEN {site.layout[task.page][task.gi].cat} ELSE SiteCategories

RowCounts(task) ==
    IF Scripted THEN {site.layout[task.page][task.gi].rows} ELSE 0..site.rows

\* A listing without a last page.
HasNextMut(task) == TRUE

\* The listing has a page after the one the task is on.
HasNext(task) ==
    IF Scripted THEN task.page < Len(site.layout) ELSE task.page < site.pages

\* driver.get(url) and the wait for the first category group: the page shows
\* its groups, or the call raises (a timeout, a navigation error).
LoadFirst(t) ==
    /\ T[t].pc = "load"
    /\ \/ T' = [T EXCEPT ![t].pc = "page"]
       \/ site.faults /\ T' = [T EXCEPT ![t] = Caught(@, "load")]
    /\ UNCHANGED <<site, opc, disc, fan, pool, locks, wb, rowin, rowout>>

\* The head of the while body: groups = driver.find_elements(...), and the
\* manufacturer value of the current URL.  A browser call may raise.
StartPage(t) ==
    /\ T[t].pc = "page"
    /\ \/ \E n \in GroupCounts(T[t]) :
            T' = [T EXCEPT ![t].page = @ + 1, ![t].ngroups = n, ![t].gi = 1,
                           ![t].pc = "ss_lock"]
       \/ site.faults /\ T' = [T EXCEPT ![t] = Caught([@ EXCEPT !.page = @ + 1], "page")]
    /\ UNCHANGED <<site, opc, disc, fan, pool, locks, wb, rowin, rowout>>

\* query_params.get("mfr", ["unknown"])[0]: the manufacturer the URL names
\* (one value per manufacturer URL of a keyword), or "unknown".
mfr_value(task) == IF site.mfr THEN task.url ELSE 0

\* with ss_lock: the lock is taken.
ShotLock(t) ==
    /\ T[t].pc = "ss_lock"
    /\ locks.ss = 0
    /\ locks' = [locks EXCEPT !.ss = t]
    /\ T' = [T EXCEPT ![t].pc = "shot"]
    /\ UNCHANGED <<site, opc, disc, fan, pool, wb, rowin, rowout>>

\* if Utils.take_screenshot(screenshot_path, driver): page_num += 1, and the
\* with-block releases ss_lock.
AfterShot(task, ok) ==
    [task EXCEPT !.shots = IF ok THEN @ + 1 ELSE @,
                 !.page_num = IF ok THEN @ + 1 ELSE @,
                 !.pc = "group"]

ShotTake(t) ==
    /\ T[t].pc = "shot"
    /\ \E ok \in {TRUE, ~site.faults} : T' = [T EXCEPT ![t] = AfterShot(@, ok)]
    /\ locks' = [locks EXCEPT !.ss = 0]
    /\ UNCHANGED <<site, opc, disc, fan, pool, wb, rowin, rowout>>

\* The handler of the per-group try (except Exception at 264): it formats
\* category_name into the log line, which raises UnboundLocalError while no
\* group of this call has had its title read yet; that error leaves the for
\* loop and reaches the handler of the outer try.  Otherwise the for loop goes
\* on with the next group.
GroupFailed(task) ==
    IF task.category_name = "unbound"
    THEN Caught(task, "group")
    ELSE [task EXCEPT !.gi = @ + 1]

\* category_name not in [...]: should_continue = False and break.
\* An allow-list check that lets every category through.
IsAllowedMut(c) == TRUE

IsAllowed(c) == c \in AllowedCategories

\* A group loop that is over after the first group of the page.
GroupsDoneMut(task) == task.gi > 1

\* `for group in groups` is exhausted: every group of the page has had its
\* round.
GroupsDone(task) == task.gi > task.ngroups

\* One round of `for group in groups` up to the row loop: the for loop is
\* exhausted (its loop variables are not read again), or the title lookup raises, or the category is not on the
\* allow-list, or the rows lookup raises, or the group's rows are found.
GroupHead(t) ==
    /\ T[t].pc = "group"
    /\ IF GroupsDone(T[t])
       THEN T' = [T EXCEPT ![t].pc = "next", ![t].gi = 0, ![t].ngroups = 0]
       ELSE \/ site.faults /\ T' = [T EXCEPT ![t] = GroupFailed(@)]
            \/ \E c \in GroupCategories(T[t]) :
                 LET named == [T[t] EXCEPT !.category_name = c] IN
                 IF ~IsAllowed(c)
                 THEN T' = [T EXCEPT ![t] = Stopped(named, "halt")]
                 ELSE \/ site.faults /\ T' = [T EXCEPT ![t] = GroupFailed(named)]
                      \/ \E n \in RowCounts(T[t]) :
                           T' = [T EXCEPT ![t] = [named EXCEPT !.nrows = n, !.ri = 1,
                                                               !.pc = "row"]]
    /\ UNCHANGED <<site, opc, disc, fan, pool, locks, wb, rowin, rowout>>

----------------------------------------------------------------------------
(* parse_row_data.  A row element is a function from the position i of     *)
(* "div.table__row-element:nth-of-type(i) > div" to what the browser finds *)
(* there: [found, text, nal, href].  found: the sub-element exists; text:  *)
(* its text, a sequence of characters; nal: it holds an <i> whose class    *)
(* contains "icon-nal"; href: it holds an <a> (the name column).           *)
(* A value of the parsed record is [k, s, n, e]: None, a str s, an int n,  *)
(* or the float n / 10^e.                                                  *)

NoneVal == [k |-> "None", s |-> <<>>, n |-> 0, e |-> 0]
StrVal(s) == [k |-> "str", s |-> s, n |-> 0, e |-> 0]
IntVal(n) == [k |-> "int", s |-> <<>>, n |-> n, e |-> 0]

RECURSIVE FloatVal(_, _)
FloatVal(n, e) ==
    IF e > 0 /\ n % 10 = 0 THEN FloatVal(n \div 10, e - 1)
    ELSE [k |-> "float", s |-> <<>>, n |-> n, e |-> e]

\* The sentinel safe_extract_text returns for an "icon-nal" cell.
CheckMark == StrVal(<< "CHECK" >>)

Digits == { "0", "1", "2", "3", "4", "5", "6", "7", "8", "9" }

DigitVal(c) == CHOOSE d \in 0..9 : << "0", "1", "2", "3", "4", "5", "6", "7", "8", "9" >>[d + 1] = c

\* Characters str.isdigit() accepts and int() and float() reject: digits that
\* are not decimal, such as a superscript two (written "SUP2" here).
OtherDigits == { "SUP2" }

\* str.isdigit(): not empty and digits only.
isdigit(s) == s # <<>> /\ \A i \in 1..Len(s) : s[i] \in Digits \cup OtherDigits

\* What int() parses: not empty and decimal digits only (else ValueError).
IsIntText(s) == s # <<>> /\ \A i \in 1..Len(s) : s[i] \in Digits

\* int(text) / float(text) raised ValueError.
ValueError == [k |-> "ValueError", s |-> <<>>, n |-> 0, e |-> 0]

\* s.replace(c, "", 1): the first c removed.
RECURSIVE ReplaceFirst(_, _)
ReplaceFirst(s, c) ==
    IF s = <<>> THEN s
    ELSE IF Head(s) = c THEN Tail(s)
    ELSE <<Head(s)>> \o ReplaceFirst(Tail(s), c)

\* s.replace(c, ""): every c removed.
RECURSIVE ReplaceAll(_, _)
ReplaceAll(s, c) ==
    IF s = <<>> THEN s
    ELSE IF Head(s) = c THEN ReplaceAll(Tail(s), c)
    ELSE <<Head(s)>> \o ReplaceAll(Tail(s), c)

\* int(s) of a digit string.
RECURSIVE ParseInt(_)
ParseInt(s) ==
    IF s = <<>> THEN 0
    ELSE 10 * ParseInt(SubSeq(s, 1, Len(s) - 1)) + DigitVal(s[Len(s)])

\* The number of characters after the first "." of s (0 without one).
RECURSIVE AfterDot(_)
AfterDot(s) ==
    IF s = <<>> THEN 0
    ELSE IF Head(s) = "." THEN Len(s) - 1
    ELSE AfterDot(Tail(s))

\* float(s): digits with at most one ".", else ValueError.
IsFloatText(s) == IsIntText(ReplaceFirst(s, "."))
ParseFloat(s) == FloatVal(ParseInt(ReplaceFirst(s, ".")), AfterDot(s))

\* The transforms, each on the stripped text: a value, None, or "ValueError".
str_transform(text) == StrVal(text)

\* float(text) and int(text).
float(text) == IF IsFloatText(text) THEN ParseFloat(text) ELSE ValueError
int(text) == IF IsIntText(text) THEN IntVal(ParseInt(text)) ELSE ValueError

weight_transform(text) ==
    IF text # <<>> /\ isdigit(ReplaceFirst(text, "."))
    THEN float(text) ELSE NoneVal

availability_transform(text) ==
    IF isdigit(text) THEN int(text) ELSE NoneVal

lead_time_transform(text) ==
    IF isdigit(text) THEN int(text) ELSE NoneVal

price_transform(text) ==
    IF text # <<>> /\ isdigit(ReplaceFirst(text, "."))
    THEN float(ReplaceAll(ReplaceAll(text, ","), "$"))
    ELSE NoneVal

\* safe_extract_text(selector, transform_func) with the transform's result tr
\* for the stripped text: a missing element and a ValueError give None, an
\* "icon-nal" cell the check mark, an empty or None result the stripped text.
safe_extract_text(cell, tr) ==
    IF ~cell.found THEN NoneVal
    ELSE IF cell.nal THEN CheckMark
    ELSE IF tr.k = "ValueError" THEN NoneVal
    ELSE IF tr.k = "None" \/ tr = StrVal(<<>>) THEN StrVal(strip(cell.text))
    ELSE tr

\* The name column is read outside safe_extract_text: row.find_element raises
\* NoSuchElementException when the third sub-element is missing.
NameRaises(row) == ~row[3].found

\* The NAME value: the link text when the element holds an <a>, else the
\* stripped text of the element.
NameValue(cell) == IF cell.href THEN StrVal(cell.text) ELSE StrVal(strip(cell.text))

\* parse_row_data(row, category, keyword): [raised, data].
parse_row_data(row, category, keyword) ==
    IF NameRaises(row)
    THEN [raised |-> TRUE, data |-> <<>>]
    ELSE [raised |-> FALSE,
          data |-> [ KEYWORD |-> StrVal(keyword),
                     CATEGORY |-> StrVal(<<category>>),
                     MANUFACTURER |-> safe_extract_text(row[1], str_transform(strip(row[1].text))),
                     ARTICLE |-> safe_extract_text(row[2], str_transform(strip(row[2].text))),
                     NAME |-> NameValue(row[3]),
                     NAME_URL |-> IF row[3].href THEN StrVal(<<"href">>) ELSE NoneVal,
                     WEIGHT |-> safe_extract_text(row[4], weight_transform(strip(row[4].text))),
                     AVAILABILITY |-> safe_extract_text(row[5], availability_transform(strip(row[5].text))),
                     LEAD_TIME |-> safe_extract_text(row[6], lead_time_transform(strip(row[6].text))),
                     INFORMATION |-> safe_extract_text(row[7], str_transform(strip(row[7].text))),
                     PRICE |-> safe_extract_text(row[8], price_transform(strip(row[8].text))) ]]

----------------------------------------------------------------------------
(* The rows of the modelled site, and the row loop with write_data_row.    *)

Cell(text) == [found |-> TRUE, text |-> text, nal |-> FALSE, href |-> FALSE]
MissingCell == [found |-> FALSE, text |-> <<>>, nal |-> FALSE, href |-> FALSE]

\* A row with all eight sub-elements, and the same row without its name element.
FullRow == [i \in 1..8 |-> Cell(<< "1" >>)]
SiteRows == { FullRow, [FullRow EXCEPT ![3] = MissingCell] }

\* One round of `for row in rows` up to write_data_row: the for loop is
\* exhausted (the group loop goes on), or parse_row_data raises and the
\* handler at 260 logs it (category_name is bound here), or the record is
\* handed to write_data_row.
RowParse(t) ==
    /\ T[t].pc = "row"
    /\ IF T[t].ri > T[t].nrows
       THEN T' = [T EXCEPT ![t].gi = @ + 1, ![t].pc = "group",
                           ![t].ri = 0, ![t].nrows = 0]
       ELSE \E row \in IF site.faults THEN SiteRows ELSE {FullRow} :
              IF parse_row_data(row, T[t].category_name, T[t].kw).raised
              THEN T' = [T EXCEPT ![t].ri = @ + 1]
              ELSE T' = [T EXCEPT ![t].fld = 1, ![t].pc = "field"]
    /\ UNCHANGED <<site, opc, disc, fan, pool, locks, wb, rowin, rowout>>

\* write_data_row, one field of fields_to_write: the arguments of
\* Utils.write_data are evaluated, self.row_count among them.
FieldRead(t) ==
    /\ T[t].pc = "field"
    /\ T' = [T EXCEPT ![t].row = wb.row_count, ![t].pc = "cell"]
    /\ UNCHANGED <<site, opc, disc, fan, pool, locks, wb, rowin, rowout>>

\* The worksheet with cell (r, c) written by record v.
WriteCell(sheet, r, c, v) ==
    { x \in sheet : ~(x[1] = r /\ x[2] = c) } \cup { <<r, c, v>> }

\* A write_data_row that hands ss_lock to Utils.write_data.
WriteLockMut == "ss"

\* The lock write_data_row hands to Utils.write_data: excel_writing_lock
\* (scrape_manufacturer_data 259, write_data_row 186).
WriteLock == "xl"

\* Utils.write_data(worksheet, formats, row, col, ..., lock=lock) takes the
\* lock it was passed, waiting while another worker holds it.
FieldLock(t) ==
    /\ T[t].pc = "cell"
    /\ locks[WriteLock] = 0
    /\ locks' = [locks EXCEPT ![WriteLock] = t]
    /\ T' = [T EXCEPT ![t].pc = "write"]
    /\ UNCHANGED <<site, opc, disc, fan, pool, wb, rowin, rowout>>

\* Under the lock the cell at the given row and column is written and the
\* lock is released on return.  After the last field write_data_row goes on
\* to self.row_count += 1.
FieldWrite(t) ==
    /\ T[t].pc = "write"
    /\ locks' = [locks EXCEPT ![WriteLock] = 0]
    /\ wb' = [wb EXCEPT !.sheet = WriteCell(@, T[t].row, T[t].fld,
                                            <<t, T[t].returned + 1>>)]
    /\ T' = [T EXCEPT ![t].fld = IF @ < Len(Fields) THEN @ + 1 ELSE @,
                      ![t].pc = IF T[t].fld < Len(Fields)
                                THEN "field" ELSE "inc_load"]
    /\ UNCHANGED <<site, opc, disc, fan, pool, rowin, rowout>>

\* self.row_count += 1 is a load, an add and a store: the load.
IncLoad(t) ==
    /\ T[t].pc = "inc_load"
    /\ T' = [T EXCEPT ![t].row = wb.row_count, ![t].pc = "inc_store"]
    /\ UNCHANGED <<site, opc, disc, fan, pool, locks, wb, rowin, rowout>>

\* The store; write_data_row returns and the row loop goes on.
IncStore(t) ==
    /\ T[t].pc = "inc_store"
    /\ wb' = [wb EXCEPT !.row_count = T[t].row + 1]
    /\ T' = [T EXCEPT ![t].returned = @ + 1, ![t].ri = @ + 1, ![t].pc = "row",
                      ![t].fld = 0, ![t].row = 0]
    /\ UNCHANGED <<site, opc, disc, fan, pool, locks, rowin, rowout>>

\* if should_continue: the next-page control.  It is absent
\* (NoSuchElementException), or its class holds "disabled", or checking or
\* clicking it or the wait after the click raises: should_continue = False.
\* Otherwise it is clicked, the groups of the next page appear and the while
\* loop goes round.
NextPage(t) ==
    /\ T[t].pc = "next"
    /\ \/ /\ ~(Scripted /\ HasNext(T[t]))
          /\ \E why \in {"absent", "disabled"} : T' = [T EXCEPT ![t] = Stopped(@, why)]
       \/ /\ site.faults
          /\ T' = [T EXCEPT ![t] = Stopped(@, "click")]
       \/ /\ HasNext(T[t])
          /\ T' = [T EXCEPT ![t].pc = "page"]
    /\ UNCHANGED <<site, opc, disc, fan, pool, locks, wb, rowin, rowout>>

\* A release of the pool's first session, whichever the task holds.
ReleasedDriverMut(task) == 1

\* finally: driver_pool.release(driver).
ReleasedDriver(task) == task.driver

\* The call has returned: the session is handed back and the future is done.
\* Of the finished call the record keeps how it ended, the rows it appended,
\* the screenshots it took and its release.
Returned(task) ==
    [NewTask(task) EXCEPT !.pc = "done", !.stop = task.stop,
                          !.returned = task.returned, !.shots = task.shots,
                          !.released = task.released + 1]

Release(t) ==
    /\ T[t].pc = "finally"
    /\ pool' = [pool EXCEPT !.avail = @ \cup {ReleasedDriver(T[t])}]
    /\ T' = [T EXCEPT ![t] = Returned(@)]
    /\ UNCHANGED <<site, opc, disc, fan, locks, wb, rowin, rowout>>

----------------------------------------------------------------------------
(* The run.                                                                *)

TaskStep(t) ==
    \/ StartTask(t) \/ Acquire(t) \/ LoadFirst(t) \/ StartPage(t)
    \/ ShotLock(t) \/ ShotTake(t) \/ GroupHead(t) \/ RowParse(t)
    \/ FieldRead(t) \/ FieldLock(t) \/ FieldWrite(t) \/ IncLoad(t) \/ IncStore(t)
    \/ NextPage(t) \/ Release(t)

Next ==
    \/ ProcessKeywords \/ FetchKeyword \/ FetchReturn \/ Dispatch
    \/ Submit \/ SubmitDone
    \/ \E t \in Tasks : Collect(t)
    \/ ExitExecutor \/ SaveWorkbook \/ CloseOk \/ CloseFail \/ ClosePrompt \/ Cleanup
    \/ \E t \in Tasks : TaskStep(t)

----------------------------------------------------------------------------
(* Scenarios and specifications.  A scenario fixes the keywords of the run *)
(* and bounds the site: at most urls manufacturer URLs per keyword, pages  *)
(* pages per manufacturer, groups category groups per page, rows rows per  *)
(* group; faults tells whether browser calls fail in it (timeouts, missing *)
(* elements, failed screenshots).  A scenario with a layout fixes what     *)
(* every manufacturer's listing shows instead; crash tells whether calls   *)
(* of the orchestrator raise, mfr whether the manufacturer URLs carry an   *)
(* "mfr" query parameter.                                                  *)

Scenario(kws, urls, pages, groups, rows, faults) ==
    [kws |-> kws, urls |-> urls, pages |-> pages, groups |-> groups, rows |-> rows,
     faults |-> faults, layout |-> <<>>, crash |-> FALSE, mfr |-> TRUE]

\* Two concurrent manufacturers of one keyword, with faults.
RaceUrls == 2
RacePages == 2
RaceGroups == 1
RaceRows == 1
RaceScenario == Scenario(<< <<"a">> >>, RaceUrls, RacePages, RaceGroups, RaceRows, TRUE)

\* One manufacturer with a long listing, with faults.
PagePages == 3
PageGroups == 2
PageRows == 2
PageScenario == Scenario(<< <<"a">> >>, 1, PagePages, PageGroups, PageRows, TRUE)

\* More manufacturers than sessions, each with a listing of one page with one
\* empty eligible group; no browser call fails.
PoolUrls == 4
PoolLayout == << << [cat |-> "Own stock warehouses", rows |-> 0] >> >>
PoolScenario ==
    [Scenario(<< <<"a">> >>, PoolUrls, 1, 1, 0, FALSE) EXCEPT !.layout = PoolLayout]

\* One manufacturer with one page, one group and one row, with faults.
UnitScenario == Scenario(<< <<"a">> >>, 1, 1, 1, 1, TRUE)

Init == InitWith(RaceScenario) \/ InitWith(PageScenario)

Spec == Init /\ [][Next]_vars

\* Manufacturers with the listing of PoolLayout in a run whose orchestrator
\* meets exceptions of its own: executor.submit or save_workbook may raise.
CrashUrls == 2
CrashScenario ==
    [Scenario(<< <<"a">> >>, CrashUrls, 1, 1, 0, FALSE)
        EXCEPT !.layout = PoolLayout, !.crash = TRUE]

InitPool == InitWith(PoolScenario) \/ InitWith(UnitScenario) \/ InitWith(CrashScenario)

SpecPool == InitPool /\ [][Next]_vars

\* Runs over one manufacturer in which the operator answers every prompt of
\* save_workbook and a close of the workbook succeeds once the destination is
\* free (after at most MaxCloseFails failed attempts).
InitSave == InitWith(UnitScenario)

SpecSave == InitSave /\ [][Next]_vars /\ WF_vars(ClosePrompt) /\ WF_vars(CloseOk)

\* Runs over keyword lists: every list of at most MaxKeywords keywords, each
\* manufacturer with one page, one group and one row, with faults.
KeywordChars == { " ", "a" }
Keywords == UNION { [1..n -> KeywordChars] : n \in 0..MaxKeywordLen }
KeywordLists == UNION { [1..n -> Keywords] : n \in 0..MaxKeywords }

InitKeywords == \E kws \in KeywordLists : InitWith(Scenario(kws, 1, 1, 1, 1, TRUE))

SpecKeywords == InitKeywords /\ [][Next]_vars

\* Runs over one manufacturer with a listing of three pages: two pages of
\* eligible groups (at most ScriptGroups groups of at most ScriptRows rows) and
\* a third page that starts with a disallowed or with an eligible group.  No
\* browser call fails.
ScriptGroups == 2
ScriptRows == 1
EligibleGroups ==
    { [cat |-> c, rows |-> n] : c \in SiteCategories \cap AllowedCategories,
                                n \in 0..ScriptRows }
Eligible == CHOOSE g \in EligibleGroups : g.rows = ScriptRows
Disallowed == [cat |-> CHOOSE c \in SiteCategories : c \notin AllowedCategories,
               rows |-> ScriptRows]
EligiblePages == UNION { [1..n -> EligibleGroups] : n \in 1..ScriptGroups }
LastPages == { <<Disallowed>>, <<Disallowed, Eligible>>, <<Eligible>> }
ScriptLayouts == { <<p1, p2, p3>> : p1 \in EligiblePages, p2 \in EligiblePages,
                                    p3 \in LastPages }

InitScript ==
    \E l \in ScriptLayouts :
        InitWith([Scenario(<< <<"a">> >>, 1, 3, ScriptGroups, ScriptRows, FALSE)
                    EXCEPT !.layout = l])

SpecScript == InitScript /\ [][Next]_vars

\* The same listings with browser calls that may fail.
InitNext ==
    \E l \in ScriptLayouts :
        InitWith([Scenario(<< <<"a">> >>, 1, 3, ScriptGroups, ScriptRows, TRUE)
                    EXCEPT !.layout = l])

SpecNext == InitNext /\ [][Next]_vars

\* Two keywords with up to ShotUrls manufacturers each, every listing of two
\* pages of one group without rows; the manufacturer URLs carry the "mfr"
\* parameter or lack it.  No call fails.
ShotUrls == 2
ShotLayout == << << [cat |-> "Own stock warehouses", rows |-> 0] >>,
                 << [cat |-> "Own stock warehouses", rows |-> 0] >> >>
ShotScenario(mfr) ==
    [Scenario(<< <<"a">>, <<"b">> >>, ShotUrls, 2, 1, 0, FALSE)
        EXCEPT !.layout = ShotLayout, !.mfr = mfr]

InitShots == \E mfr \in BOOLEAN : InitWith(ShotScenario(mfr))

SpecShots == InitShots /\ [][Next]_vars

\* Runs over the manufacturers of one keyword, every listing of LivePages
\* pages of one group (one row on the first page), with browser calls that
\* may fail and an
\* orchestrator whose calls raise or do not.  The main thread and every
\* worker thread that can take a step eventually takes one (the operator at
\* the prompt included).
LiveUrls == 2
LivePages == 2
LiveLayout ==
    [p \in 1..LivePages |->
        << [cat |-> "Own stock warehouses", rows |-> IF p = 1 THEN 1 ELSE 0] >>]
LiveScenario(crash) ==
    [Scenario(<< <<"a">> >>, LiveUrls, LivePages, 1, 1, TRUE)
        EXCEPT !.layout = LiveLayout, !.crash = crash]

InitLive == \E crash \in BOOLEAN : InitWith(LiveScenario(crash))

MainStep ==
    \/ ProcessKeywords \/ FetchKeyword \/ FetchReturn \/ Dispatch
    \/ Submit \/ SubmitDone
    \/ \E t \in Tasks : Collect(t)
    \/ ExitExecutor \/ SaveWorkbook \/ CloseOk \/ CloseFail \/ ClosePrompt \/ Cleanup

WorkerStep(t) == t \in Tasks /\ TaskStep(t)

SpecLive ==
    /\ InitLive /\ [][Next]_vars
    /\ WF_vars(MainStep)
    /\ \A t \in 1..LiveUrls : WF_vars(WorkerStep(t))

\* parse_row_data on its own: the row is any combination of present and
\* missing sub-elements.
ParseRows == [1..8 -> {Cell(<< "1" >>), MissingCell}]

InitParse == \E row \in ParseRows : Start(UnitScenario, "parse_row_data", row)

ParseRow ==
    /\ opc = "parse_row_data"
    /\ rowout' = parse_row_data(rowin, "Own stock warehouses", << "a" >>)
    /\ opc' = "parsed"
    /\ UNCHANGED <<site, disc, fan, T, pool, locks, wb, rowin>>

SpecParse == InitParse /\ [][ParseRow]_vars

\* parse_row_data on rows with every sub-element present, one numeric cell
\* (weight, availability, lead time or price) holding any text of at most
\* MaxTextLen characters or one of the two sample texts, with or without the
\* "icon-nal" icon.
MaxTextLen == 3
TextChars == { "1", "5", ".", ",", "$", "N", "SUP2", " " }
PriceSample == << "$", "1", ",", "2", "3", "4", ".", "5", "0" >>
TextSample == << "N", "/", "A" >>
CellTexts ==
    UNION { [1..n -> TextChars] : n \in 0..MaxTextLen } \cup { PriceSample, TextSample }
NumericColumns == { 4, 5, 6, 8 }
TextRows ==
    { [FullRow EXCEPT ![i] = [Cell(t) EXCEPT !.nal = nal]] :
        i \in NumericColumns, t \in CellTexts, nal \in BOOLEAN }

InitText == \E row \in TextRows : Start(UnitScenario, "parse_row_data", row)

SpecText == InitText /\ [][ParseRow]_vars

----------------------------------------------------------------------------
(* What the worksheet and the pool hold, for the properties below.         *)

\* The records parse_row_data has returned and write_data_row has appended:
\* <<t, k>> is the k-th record of task t.
Records == UNION { { <<t, k>> : k \in 1..T[t].returned } : t \in Tasks }

\* The worksheet rows written so far, and those below the header.
SheetRows == { x[1] : x \in wb.sheet }
DataRows == SheetRows \ {0}

\* The worksheet rows that hold every field of the record rec.
RowsHolding(rec) ==
    { r \in SheetRows : \A c \in 1..Len(Fields) : <<r, c, rec>> \in wb.sheet }

\* Every record the task has appended is still in the worksheet.
RowsKept(t) == \A k \in 1..T[t].returned : RowsHolding(<<t, k>>) # {}

WorkersFinished == \A t \in Tasks : T[t].pc = "done"

\* The sessions the tasks hold.
Held == { T[t].driver : t \in Tasks } \ {0}

\* The task's call ended in its outermost exception handler.
Failed(t) == T[t].stop \in {"load", "page", "group"}

----------------------------------------------------------------------------
(* C1: under any interleaving of the workers, every record returned by the *)
(* parser is written once, all its fields on one worksheet row of its own: *)
(* no row holds fields of two records, every appended record holds exactly *)
(* one row, and when all workers have finished there are as many data rows *)
(* as appended records.                                                    *)
C1_RecordsKeepOwnRows ==
    /\ \A x, y \in wb.sheet : x[1] = y[1] => x[3] = y[3]
    /\ \A rec \in Records : Cardinality(RowsHolding(rec)) = 1
    /\ WorkersFinished => Cardinality(DataRows) = Cardinality(Records)

\* Two workers have appended one record each and one of the two is gone.
C1_RowLost ==
    /\ WorkersFinished
    /\ Cardinality(Records) = 2
    /\ Cardinality(DataRows) = 1

(* C2: every task that acquired a session releases that session exactly    *)
(* once, however the task ends (allow-list halt, last page, error while    *)
(* loading, unexpected exception): a task holds its session from acquire   *)
(* to the finally clause without a release, a finished task has released   *)
(* once and holds nothing, and the pool's sessions are exactly the         *)
(* available ones plus the held ones.                                      *)
C2_ReleasedOnce ==
    /\ \A t \in Tasks :
          /\ T[t].pc \in {"queued", "acquire"} => T[t].driver = 0 /\ T[t].released = 0
          /\ T[t].pc \notin {"queued", "acquire", "done"} =>
                T[t].driver \in 1..max_workers /\ T[t].released = 0
          /\ T[t].pc = "done" => T[t].driver = 0 /\ T[t].released = 1
    /\ \A t, u \in Tasks : (t # u /\ T[t].driver # 0) => T[t].driver # T[u].driver
    /\ opc \in {"submit", "unwind", "collect", "save", "close", "prompt", "cleanup"} =>
          /\ pool.avail \cup Held = 1..max_workers
          /\ pool.avail \cap Held = {}

\* A task whose call ended with an unexpected exception has released.
C2_ReleasedAfterException ==
    \E t \in Tasks : T[t].pc = "done" /\ T[t].stop = "group" /\ T[t].released = 1

C4_HaltKeepsRows ==
    \A t \in Tasks : T[t].stop = "halt" =>
        /\ T[t].pc \in {"finally", "done"}
        /\ RowsKept(t)

\* The halt itself: a halted task does nothing but release its session.
C4_HaltStops ==
    \A t \in Tasks : T[t].stop = "halt" => T[t].pc \in {"finally", "done"}

(* C5: save_workbook is called exactly once per run that reaches the       *)
(* scraping stage, and only after every submitted task has completed: it   *)
(* is never called twice, it has been called when the run closes the file  *)
(* or is over, and from the call on every (keyword, url) pair has been     *)
(* submitted and every task is done.                                       *)
C5_SavedOnceAfterAll ==
    /\ wb.saves <= 1
    /\ (wb.made = 1 /\ opc \in {"close", "prompt", "cleanup", "end"}) => wb.saves = 1
    /\ (opc = "save" \/ wb.saves >= 1) =>
          /\ Len(T) = Len(Pairs(disc.dict))
          /\ WorkersFinished

\* The workbook is saved after more tasks than threads have run.
C5_SavedAfterAll ==
    /\ wb.saves = 1
    /\ Len(T) > max_workers

\* The order of workers and save_workbook: it is never called twice, and
\* from the call on every task is done.
C5_SavedAfterWorkers ==
    /\ wb.saves <= 1
    /\ (opc = "save" \/ wb.saves >= 1) => WorkersFinished

\* The run is over without a call of save_workbook after a task has run.
C5_NeverSaved ==
    /\ opc = "end"
    /\ wb.made = 1 /\ wb.saves = 0
    /\ Len(T) >= 1

(* C6: a failed task changes nothing for the others: the rows it appended  *)
(* before failing remain in the worksheet, and the run still ends with     *)
(* every task done and the file saved and closed.                          *)
C6_FailureIsolated ==
    \A t \in Tasks : Failed(t) =>
        /\ RowsKept(t)
        /\ opc = "end" => (WorkersFinished /\ wb.saves = 1 /\ wb.closed = 1)

\* The run ends saved and closed whatever the tasks did.
C6_RunEndsSaved ==
    (opc = "end" /\ wb.made = 1) => (WorkersFinished /\ wb.saves = 1 /\ wb.closed = 1)

(* C7: a failure while reading a group's category name or rows, or while   *)
(* parsing a row, skips only that group or row: no task ends because of    *)
(* it.                                                                     *)
C7_GroupFailureSkipsOnly ==
    \A t \in Tasks : T[t].stop # "group"

\* The field each sub-element of a row is extracted into.
ColumnField == << "MANUFACTURER", "ARTICLE", "NAME", "WEIGHT", "AVAILABILITY",
                  "LEAD_TIME", "INFORMATION", "PRICE" >>

(* C8: parse_row_data never raises because a sub-element of the row is     *)
(* missing: it returns a record in which every field whose element is      *)
(* missing is None, the name field included.                               *)
C8_MissingFieldsAbsent ==
    opc = "parsed" =>
        /\ ~rowout.raised
        /\ \A i \in 1..8 : ~rowin[i].found => rowout.data[ColumnField[i]] = NoneVal

\* The fields read through safe_extract_text: missing ones are None.
C8_GuardedFieldsAbsent ==
    (opc = "parsed" /\ ~rowout.raised) =>
        \A i \in 1..8 : ~rowin[i].found => rowout.data[ColumnField[i]] = NoneVal

\* A keyword of blanks only.
IsBlank(k) == \A i \in 1..Len(k) : k[i] = " "

\* The run did nothing at all: no browser session, no pool, no workbook.
NoOp ==
    /\ disc.driver = "none"
    /\ T = <<>>
    /\ pool.avail = {} /\ pool.cleanups = 0
    /\ wb.made = 0 /\ wb.sheet = {}

\* The run left one artifact, saved once and closed, whose first row is the
\* header row and whose table starts at it.
OneArtifact ==
    /\ wb.made = 1 /\ wb.saves = 1 /\ wb.closed = 1
    /\ HeaderRow \subseteq wb.sheet
    /\ wb.table[1] = 0

RECURSIVE RowsOfPage(_)
RowsOfPage(groups) ==
    IF groups = <<>> THEN 0 ELSE Head(groups).rows + RowsOfPage(Tail(groups))

\* The listing of C10: pages 1 and 2 hold eligible categories only and page
\* 3 starts with a disallowed category.
C10Listing ==
    /\ Scripted
    /\ \A p \in 1..2 : \A g \in 1..Len(site.layout[p]) :
          site.layout[p][g].cat \in AllowedCategories
    /\ site.layout[3][1].cat \notin AllowedCategories

\* What a task has done on the C10 listing when it leaves its try block,
\* with shots screenshots.
C10Outcome(shots) ==
    \A t \in Tasks : (C10Listing /\ T[t].pc = "finally") =>
        /\ T[t].stop = "halt"
        /\ T[t].page = 3
        /\ T[t].returned = RowsOfPage(site.layout[1]) + RowsOfPage(site.layout[2])
        /\ T[t].shots = shots

Cleaned(text) == ReplaceAll(ReplaceAll(text, ","), "$")

\* The text is a number: decimal digits with at most one ".".
IsNumber(text) ==
    LET d == ReplaceFirst(text, ".") IN
    d # <<>> /\ \A i \in 1..Len(d) : d[i] \in Digits

\* The text is a whole number: decimal digits only.
IsWhole(text) == text # <<>> /\ \A i \in 1..Len(text) : text[i] \in Digits

(* C11: a price cell whose trimmed text carries a currency symbol or       *)
(* thousands separators around a number, such as "$1,234.50", is parsed to *)
(* that number (1234.50), not kept as the raw string.                      *)
C11_PriceStripped ==
    (opc = "parsed" /\ ~rowin[8].nal) =>
        LET text == strip(rowin[8].text) IN
        (Cleaned(text) # text /\ IsNumber(Cleaned(text))) =>
            /\ ~rowout.raised
            /\ rowout.data.PRICE = ParseFloat(Cleaned(text))

\* The sample price "$1,234.50" has been parsed and is kept as it stands.
C11_SampleKeptRaw ==
    /\ opc = "parsed"
    /\ rowin[8].text = PriceSample /\ ~rowin[8].nal
    /\ rowout.data.PRICE = StrVal(PriceSample)

\* The text is a valid number for the numeric column i: a whole number for
\* availability and lead time, a number for weight, a number once the
\* separators and the currency symbol are removed for price.
ValidFor(i, text) ==
    IF i \in {5, 6} THEN IsWhole(text)
    ELSE IF i = 4 THEN IsNumber(text)
    ELSE IsNumber(Cleaned(text))

(* C12: for every numeric field (weight, availability, lead time, price)   *)
(* whose cell exists (without the "not applicable" icon) and whose trimmed *)
(* text is not a valid number for the field, the row is produced and the   *)
(* field is exactly the raw trimmed text.                                  *)
C12_InvalidNumberKeptRaw ==
    opc = "parsed" =>
        /\ ~rowout.raised
        /\ \A i \in NumericColumns :
              LET text == strip(rowin[i].text) IN
              (rowin[i].found /\ ~rowin[i].nal /\ ~ValidFor(i, text)) =>
                  rowout.data[ColumnField[i]] = StrVal(text)

\* Texts str.isdigit() rejects are kept raw: the sample "N/A" is.
C12_NonDigitKeptRaw ==
    opc = "parsed" =>
        \A i \in NumericColumns :
            LET text == strip(rowin[i].text) IN
            (rowin[i].found /\ ~rowin[i].nal /\ ~isdigit(ReplaceFirst(text, "."))) =>
                rowout.data[ColumnField[i]] = StrVal(text)

(* C13: save_workbook is left only after a close of the workbook has      *)
(* succeeded: a failed close is followed by the operator prompt and the    *)
(* prompt by another close attempt, the rows of the worksheet stay as they *)
(* are from the call on, and when the operator answers every prompt and    *)
(* the destination becomes free the workbook is eventually closed.         *)
C13_SaveRetriesUntilClosed ==
    /\ [](opc \in {"cleanup", "end"} /\ wb.saves = 1 => wb.closed = 1)
    /\ [][(opc = "close" /\ wb'.failed # wb.failed) => opc' = "prompt"]_vars
    /\ [][opc = "prompt" => (opc' = "close" /\ wb' = wb)]_vars
    /\ [][wb.saves = 1 => (wb'.sheet = wb.sheet /\ wb'.row_count = wb.row_count)]_vars
    /\ (wb.saves = 1) ~> (wb.closed = 1)

\* The workbook is closed after MaxCloseFails failed attempts with the row
\* of the manufacturer in it.
C13_ClosedAfterRetries ==
    /\ wb.closed = 1
    /\ wb.failed = MaxCloseFails
    /\ \E t \in Tasks : T[t].returned >= 1 /\ RowsKept(t)

(* C14: in every run that constructs the session pool cleanup() is called  *)
(* exactly once, after every worker task has been joined, on the normal    *)
(* path and when the fan-out or save_workbook raises: it is never called   *)
(* twice, it has been called when the run is over, and from the moment it  *)
(* is due no task is running or holds a session.                           *)
C14_CleanupOnceAfterJoin ==
    /\ pool.cleanups <= 1
    /\ (opc = "end" /\ wb.made = 1) => pool.cleanups = 1
    /\ (opc = "cleanup" \/ pool.cleanups >= 1) => (WorkersFinished /\ Held = {})
    /\ pool.cleanups >= 1 => opc = "end"

\* cleanup() has run after executor.submit raised with a task under way.
C14_CleanupAfterFanOutRaised ==
    /\ pool.cleanups = 1
    /\ site.crash
    /\ wb.saves = 0
    /\ \E t \in Tasks : T[t].released = 1

\* The URLs discovery has recorded for the keyword at position i of the
\* list, -1 when it has recorded none.
UrlsOf(i) ==
    LET j == DictIndex(disc.dict, strip(site.kws[i])) IN
    IF j = 0 THEN -1 ELSE disc.dict[j].n

\* No later keyword of the list discovered so far is the same keyword.
LastOfItsKind(i) ==
    \A j \in (i + 1)..(disc.i - 1) : strip(site.kws[j]) # strip(site.kws[i])

(* C15: a failure at any step of the discovery of a keyword's URLs leaves  *)
(* that keyword with an empty URL list, and discovery is still attempted   *)
(* for every later non-blank keyword: when discovery is over every         *)
(* non-blank keyword has a recorded URL list.                              *)
C15_FailureGivesEmptyList ==
    /\ \A i \in disc.failed : LastOfItsKind(i) => UrlsOf(i) = 0
    /\ opc # "fetch" /\ opc # "process_keywords" =>
          \A i \in 1..Len(site.kws) : ~IsBlank(site.kws[i]) => UrlsOf(i) >= 0

\* A keyword whose discovery failed while the links were read has URLs.
C15_PartialListKept ==
    \E i \in disc.failed : ~disc.aborted /\ LastOfItsKind(i) /\ UrlsOf(i) >= 1

\* Discovery ended at a failure with a later non-blank keyword unattempted.
C15_LaterKeywordDropped ==
    /\ opc = "fetched" /\ disc.aborted
    /\ \E i \in 1..Len(site.kws) : ~IsBlank(site.kws[i]) /\ UrlsOf(i) = -1 /\ i \notin disc.failed

\* Group gi, row ri comes no later in the page than group gj, row rj.
DocumentOrder(gi, ri, gj, rj) == gi < gj \/ (gi = gj /\ ri <= rj)

\* What one step does to task t, as far as the order of its work goes:
\* the next-page control is reached only from the group loop with every
\* group of the page gone through; the page changes only by one, at the head
\* of the while body; within a page the task moves forward through groups and
\* rows; a row is appended only by write_data_row on the row the task is at.
\* (The record of a call that has returned no longer holds its page.)
C16Step(t) ==
    /\ T'[t].pc = "next" /\ T[t].pc # "next" =>
          T[t].pc = "group" /\ T[t].gi > T[t].ngroups
    /\ T'[t].pc = "page" /\ T[t].pc # "page" => T[t].pc \in {"load", "next"}
    /\ T'[t].page # T[t].page /\ T'[t].pc # "done" =>
          T[t].pc = "page" /\ T'[t].page = T[t].page + 1
    /\ T'[t].page = T[t].page /\ T[t].gi >= 1 /\ T'[t].gi >= 1 =>
          DocumentOrder(T[t].gi, T[t].ri, T'[t].gi, T'[t].ri)
    /\ T'[t].returned # T[t].returned =>
          /\ T[t].pc = "inc_store" /\ T'[t].returned = T[t].returned + 1
          /\ T[t].gi \in 1..T[t].ngroups /\ T[t].ri \in 1..T[t].nrows
          /\ T'[t].page = T[t].page /\ T'[t].gi = T[t].gi /\ T'[t].ri = T[t].ri + 1

(* C16: within one manufacturer's task the next-page control is invoked    *)
(* for page N+1 only after every category group of page N has been gone    *)
(* through, and the rows of page N are appended in document order before   *)
(* any row of page N+1.                                                    *)
C16_PagesInOrder == [][\A t \in Tasks : C16Step(t)]_vars

\* A task appends a row of its second page after rows of its first.
C16_SecondPageRowAppended ==
    \E t \in Tasks :
        T[t].pc = "inc_store" /\ T[t].page = 2 /\ T[t].returned >= 2 /\ T[t].gi = 2

\* The wait for the category groups timed out: on the first page (the error
\* reaches the handler at 296) or after the click on the next-page control
\* (the handler at 292).
TimedOut(t) == T[t].stop \in {"load", "click"}

(* C17: a timeout of the wait for category groups, on the first page or on *)
(* a page reached through the next-page control, ends the pagination of    *)
(* that manufacturer only: the task requests no further page and returns   *)
(* (it is in its finally clause or done), the rows it appended on earlier  *)
(* pages remain in the worksheet, and the run still ends with every task   *)
(* done.                                                                   *)
C17_TimeoutKeepsRows ==
    /\ \A t \in Tasks : TimedOut(t) =>
          /\ T[t].pc \in {"finally", "done"}
          /\ RowsKept(t)
    /\ opc = "end" => WorkersFinished

\* The timeout itself: the task that met it only releases its session, and
\* the run ends with every task done.
C17_TimeoutStops ==
    /\ \A t \in Tasks : TimedOut(t) => T[t].pc \in {"finally", "done"}
    /\ opc = "end" => WorkersFinished

\* The run is over; one task timed out after its first page, another
\* appended a row.
C17_TimedOutAmongOthers ==
    /\ opc = "end"
    /\ \E t, u \in Tasks :
          /\ T[t].stop = "click" /\ T[t].returned >= 1
          /\ T[u].stop \notin {"load", "click"} /\ T[u].returned >= 1

\* What a step of task t does at the continuation decision and between two
\* decisions.  The decision is reached only from the group loop of a page,
\* with no stop on record; it ends the task's pagination when the listing
\* has no further page (control absent or disabled) or when a call raises,
\* and goes to the head of the while body only when the listing has a further
\* page; from there one page is counted and its groups are gone through.
C18Step(t) ==
    /\ T'[t].pc = "next" /\ T[t].pc # "next" =>
          T[t].pc = "group" /\ T[t].page >= 1 /\ T[t].stop = ""
    /\ T[t].pc = "next" /\ T'[t] # T[t] =>
          \/ /\ T'[t].pc = "finally" /\ T'[t].page = T[t].page
             /\ \/ T'[t].stop \in {"absent", "disabled"} /\ T[t].page = Len(site.layout)
                \/ T'[t].stop = "click"
          \/ /\ T'[t].pc = "page" /\ T'[t].page = T[t].page
             /\ T[t].page < Len(site.layout)
    /\ T[t].pc = "page" /\ T'[t] # T[t] =>
          /\ T'[t].page = T[t].page + 1
          /\ T'[t].pc = "ss_lock" \/ (T'[t].pc = "finally" /\ T'[t].stop = "page")

(* C18: when the halt flag is not set after a page, the continuation       *)
(* decision stops the manufacturer if the next-page control is absent, if  *)
(* it is disabled, or if checking or clicking it raises; otherwise the     *)
(* control is clicked and exactly one more page is loaded and gone through *)
(* before the next decision.                                               *)
C18_ContinuationDecision == [][\A t \in Tasks : C18Step(t)]_vars

\* A task is at its second decision, having appended the rows of two pages.
C18_SecondDecision ==
    \E t \in Tasks : T[t].pc = "next" /\ T[t].page = 2 /\ T[t].returned >= 2

\* A task stopped at its first decision although the listing goes on.
C18_StoppedByException ==
    \E t \in Tasks : T[t].stop = "click" /\ T[t].page = 1 /\ T[t].page < Len(site.layout)

(* C19: within one manufacturer's task the page number in the screenshot   *)
(* file name of the N-th page visited is N, whether or not the screenshot  *)
(* of an earlier page succeeded: where the file name is built page_num is  *)
(* the number of pages visited, and past the capture it is one more.       *)
C19_PageNumberIsVisit ==
    \A t \in Tasks :
        /\ T[t].pc \in {"ss_lock", "shot"} => T[t].page_num = T[t].page
        /\ T[t].pc \in {"group", "row", "field", "cell", "write", "inc_load", "inc_store", "next"} =>
              T[t].page_num = T[t].page + 1

\* The counter follows the captures that succeeded, not the pages visited.
C19_PageNumberIsCaptures ==
    \A t \in Tasks :
        /\ T[t].pc \in {"ss_lock", "shot"} => T[t].page_num = T[t].shots + 1
        /\ T[t].pc \in {"group", "row", "field", "cell", "write", "inc_load", "inc_store", "next"} =>
              T[t].page_num = T[t].shots + 1

\* The file name of the second page visited is built with page number 1.
C19_SecondPageNamedOne ==
    \E t \in Tasks : T[t].pc = "shot" /\ T[t].page = 2 /\ T[t].page_num = 1

\* The file paths task t has written a capture to: keyword, manufacturer
\* value and page number of f"{keyword} {mfr_value} page {page_num}.png".
\* page_num is 1 at the first capture and advances with every capture that
\* succeeds, so the numbers written are 1..shots.
Captures(t) == { <<T[t].kw, mfr_value(T[t]), n>> : n \in 1..T[t].shots }

(* C20: across a whole run two different page visits (different keyword,   *)
(* different manufacturer URL, or different page of one manufacturer)      *)
(* never write their capture to the same file path, also when the          *)
(* manufacturer URLs lack the "mfr" query parameter: no two tasks share a  *)
(* path, and a task's captures have paths of their own.                    *)
C20_CapturePathsDistinct ==
    /\ \A t, u \in Tasks : t # u => Captures(t) \cap Captures(u) = {}
    /\ \A t \in Tasks : Cardinality(Captures(t)) = T[t].shots

\* The same, for runs whose manufacturer URLs carry the "mfr" parameter.
C20_DistinctWithMfr == site.mfr => C20_CapturePathsDistinct

\* The run is over and two manufacturers of one keyword have written both
\* their pages to the same two paths.
C20_CapturesOverwritten ==
    /\ opc = "end"
    /\ \E t, u \in Tasks :
          /\ t # u /\ T[t].kw = T[u].kw /\ T[t].url # T[u].url
          /\ T[t].shots = 2 /\ Captures(t) = Captures(u)

(* C21: no worker holds the screenshot lock and the output-sink lock at    *)
(* the same time, and each lock is released by its holder's next step (the *)
(* screenshot lock is held only over the capture, the sink lock only over  *)
(* the write of one cell); so a worker that waits to write a cell can go   *)
(* on whenever the sink lock is free, whoever holds the screenshot lock,   *)
(* and while a task is not done some task can take a step.                 *)
C21_LocksIndependent ==
    /\ \A t \in Tasks : ~(locks.ss = t /\ locks.xl = t)
    /\ locks.ss # 0 => T[locks.ss].pc = "shot" /\ ENABLED ShotTake(locks.ss)
    /\ locks.xl # 0 => T[locks.xl].pc = "write" /\ ENABLED FieldWrite(locks.xl)
    /\ \A t \in Tasks : T[t].pc = "cell" /\ locks.xl = 0 => ENABLED FieldLock(t)
    /\ (\E t \in Tasks : T[t].pc # "done") => \E t \in Tasks : ENABLED TaskStep(t)

\* One worker holds the screenshot lock while another holds the sink lock
\* and writes a cell.
C21_BothLocksHeld ==
    \E t, u \in Tasks : t # u /\ locks.ss = t /\ locks.xl = u

\* A worker waits for the sink lock while another holds the screenshot lock.
C21_WriterBesideCapture ==
    \E t, u \in Tasks : t # u /\ locks.ss = t /\ T[u].pc = "cell" /\ locks.xl = 0

(* C22: when save_workbook calls add_table, row_count is 1 plus the number *)
(* of write_data_row calls that returned during the run, under every       *)
(* interleaving of the workers, so the table range (rows 0 to row_count-1) *)
(* covers the header and every appended record and nothing else.           *)
C22_RowCountIsAppends ==
    /\ opc = "save" => wb.row_count = 1 + Cardinality(Records)
    /\ wb.table # <<>> => wb.table = <<0, Cardinality(Records)>>

\* The table has been added over fewer rows than were appended.
C22_TableShort ==
    /\ wb.table # <<>>
    /\ wb.table[2] < Cardinality(Records)

\* With one worker the count is exact.
C22_ExactWithOneWorker == Len(T) <= 1 => C22_RowCountIsAppends

(* C23: with listings of finitely many pages, browser calls that return or *)
(* time out and fair scheduling, every submitted task eventually           *)
(* completes, every leased session is eventually returned, and the run     *)
(* eventually reaches finalize (save_workbook) and then cleanup.           *)
C23_RunCompletes ==
    /\ \A t \in 1..LiveUrls : (t \in Tasks) ~> (t \in Tasks /\ T[t].pc = "done")
    /\ \A d \in 1..max_workers : (d \in Held) ~> (d \notin Held)
    /\ (wb.made = 1) ~> (wb.saves = 1)
    /\ (wb.made = 1) ~> (pool.cleanups = 1)
    /\ [](pool.cleanups = 1 => wb.saves = 1)

\* The same without finalize: tasks complete, sessions come back and
\* cleanup is reached.
C23_WorkersAndCleanup ==
    /\ \A t \in 1..LiveUrls : (t \in Tasks) ~> (t \in Tasks /\ T[t].pc = "done")
    /\ \A d \in 1..max_workers : (d \in Held) ~> (d \notin Held)
    /\ (wb.made = 1) ~> (pool.cleanups = 1)

\* Finalize is reached in the runs whose orchestrator calls do not raise.
C23_FinalizeUnlessRaised ==
    /\ (wb.made = 1 /\ ~site.crash) ~> (wb.saves = 1)
    /\ [](pool.cleanups = 1 /\ ~site.crash => wb.saves = 1)

\* The run is over after cleanup, a task has run, and save_workbook was
\* never called.
C23_EndedWithoutFinalize ==
    /\ opc = "end" /\ pool.cleanups = 1 /\ wb.saves = 0
    /\ \E t \in Tasks : T[t].pc = "done" /\ T[t].released = 1

====
